---------------------------- MODULE Spec2Model ----------------------------
(***************************************************************************)
(* The Assistant chat component (src/unnamed/part_008): its WebSocket      *)
(* session, the reconnection policy, the message router and the query      *)
(* session state.  The component's React state, its refs, the browser's    *)
(* sockets and the browser's timers are the state; every event handler of  *)
(* the component is one operator over a record of that state, and every    *)
(* event the browser can dispatch is one action.                           *)
(*                                                                         *)
(* The data service (src/Front-End/src/services/dataService.ts) and the    *)
(* login and logout of the AuthProvider (src/unnamed/part_007) follow in   *)
(* the second part, with the browser's localStorage, the clock and the     *)
(* requests in flight as their state; CacheSpec is their specification.    *)
(***************************************************************************)
EXTENDS Integers, Sequences, FiniteSets, TLC

(***************************************************************************)
(* Bounds of the model.                                                    *)
(***************************************************************************)
\* The histories, the retry chains and the identity changes are explored in
\* overlapping boxes: a long history or a changed identity with a quiet link,
\* or a short history of one identity with any link.
\* turns kept in the history at most
MaxTurns == 4
\* turns kept in the history at most, once the link is not quiet
ShortTurns == 2
\* value of the attempt counter at most, while the link counts as quiet
QuietAttempts == 1
\* browser timers pending at the same time at most
MaxTimers == 2
\* sockets that are not yet closed, or still referenced, at most
MaxSockets == 2
\* identity changes (login / logout) after the mount at most
MaxAuthChanges == 1

(***************************************************************************)
(* Program constants.                                                      *)
(***************************************************************************)
maxReconnectAttempts == 5
BaseDelay == 1000
CapDelay == 30000
LoadingTimeoutMs == 30000
StatusDelayMs == 100
NormalClosure == 1000

Null == 0
\* what a timer ref holds once its timer has fired or was cleared: the id of
\* no pending timer, and of no timer that is armed later
Expired == -1
NoUser == "none"
\* e-mail addresses of users; with the last one the URL of the socket has a
\* fragment, which the WebSocket constructor rejects with a SyntaxError
Users == {"u1", "u2", "u#3"}
TimerIds == 1..(MaxTimers + 4)
SocketIds == 1..(MaxSockets + 1)

\* close codes of a close event: normal, going away (a clean close by the
\* server that is not normal), abnormal (no close frame was received)
CloseCodes == {1000, 1001, 1006}

ConnectionStatus == {"connecting", "connected", "disconnected", "error"}

(***************************************************************************)
(* Text.  A message's content is the sequence of the pieces the code       *)
(* concatenates.                                                           *)
(***************************************************************************)
Greeting == <<"Hi! I'm your financial assistant. ... Try asking ...">>
ClearedGreeting == <<"Hi! I'm your financial assistant. ...">>
TimedOutText == <<"Request timed out. The server might be busy. Please try again.">>
LocalProcessingText == <<"Processing your query...">>

\* String.prototype.trim on the inputs the model types
Trim(str) == IF str = " " THEN "" ELSE str

suggestedQueries == {"Show me all expenses"}
\* what the user types
InputTexts == suggestedQueries

(***************************************************************************)
(* Inbound frames as the socket delivers them: text that JSON.parse        *)
(* rejects, JSON that is no object, or an object with the fields the       *)
(* router reads ("" and 0 stand for an absent field: both are falsy).      *)
(***************************************************************************)
Obj(t, m, a, e, n) ==
    [parse |-> "object", type |-> t, message |-> m, answer |-> a,
     error |-> e, results_count |-> n]

Frames ==
    { [parse |-> "throws", type |-> "", message |-> "", answer |-> "",
       error |-> "", results_count |-> 0],
      [parse |-> "nonobject", type |-> "", message |-> "", answer |-> "",
       error |-> "", results_count |-> 0],
      Obj("", "m1", "", "", 0),
      Obj("ping", "", "", "", 0),
      Obj("connection", "", "", "", 0),
      Obj("status", "m1", "", "", 0),
      Obj("intermediate", "", "", "", 2),
      Obj("result", "", "a1", "", 0),
      Obj("error", "", "", "e1", 0) }

VARIABLES
    user,                \* useAuth().user?.email, NoUser when logged out
    lifecycle,           \* "init" (rendered, effect not run), "mounted", "unmounted"
    messages,            \* useState<Message[]>
    inputValue,          \* useState('')
    isLoading,           \* useState(false): the in-flight flag
    connectionStatus,    \* useState<ConnectionStatus>('disconnected')
    websocketRef,        \* useRef<WebSocket | null>: a socket id or Null
    reconnectTimeoutRef, \* useRef<Timeout | null>: a timer id or Null
    loadingTimeoutRef,   \* useRef<Timeout | null>: a timer id or Null
    reconnectAttempts,   \* useRef(0)
    sockets,             \* the browser's WebSocket objects
    timers,              \* the browser's pending timers
    outbox,              \* frames handed to WebSocket.send on an open socket
    toast,               \* title of the notification the last event raised last
    authChanges,         \* identity changes so far
    ev,                  \* history: the event handled last
    chain                \* history: consecutive abnormal closures counted

VARIABLES
    localStorage,        \* window.localStorage: its entries in the order of key(i)
    clock,               \* Date.now()
    pending,             \* the getters that await their fetch
    account,             \* AuthProvider's user?.email, NoUser when logged out
    loggedOut,           \* history: the users who logged out and are not back
    last                 \* history: the call of the data service that ended last

componentVars ==
    <<user, lifecycle, messages, inputValue, isLoading, connectionStatus,
      websocketRef, reconnectTimeoutRef, loadingTimeoutRef, reconnectAttempts,
      sockets, timers, outbox, toast, authChanges, ev, chain>>

cacheVars == <<localStorage, clock, pending, account, loggedOut, last>>

vars == <<componentVars, cacheVars>>

\* what the last call of the data service did
Call(name, getter, userId, outcome, value, threw) ==
    [name |-> name, getter |-> getter, userId |-> userId, outcome |-> outcome,
     value |-> value, threw |-> threw]

NoCall == Call("none", "", "", "", "", FALSE)

\* the data service before its first call, with an empty localStorage
CacheAtRest ==
    /\ localStorage = <<>>
    /\ clock = 0
    /\ pending = {}
    /\ account = NoUser
    /\ loggedOut = {}
    /\ last = NoCall

\* the component's state as one record, which the handlers transform
St ==
    [user |-> user, lifecycle |-> lifecycle, messages |-> messages,
     inputValue |-> inputValue, isLoading |-> isLoading,
     connectionStatus |-> connectionStatus, websocketRef |-> websocketRef,
     reconnectTimeoutRef |-> reconnectTimeoutRef,
     loadingTimeoutRef |-> loadingTimeoutRef,
     reconnectAttempts |-> reconnectAttempts, sockets |-> sockets,
     timers |-> timers, outbox |-> outbox, toast |-> "",
     authChanges |-> authChanges]

NoSocket == [readyState |-> "NONE", cl |-> NoUser, wasOpen |-> FALSE]

(***************************************************************************)
(* React state setters: a setter of an unmounted component does nothing.   *)
(***************************************************************************)
setConnectionStatus(s, v) ==
    IF s.lifecycle = "unmounted" THEN s ELSE [s EXCEPT !.connectionStatus = v]

setIsLoading(s, v) ==
    IF s.lifecycle = "unmounted" THEN s ELSE [s EXCEPT !.isLoading = v]

setMessages(s, m) ==
    IF s.lifecycle = "unmounted" THEN s ELSE [s EXCEPT !.messages = m]

setInputValue(s, v) ==
    IF s.lifecycle = "unmounted" THEN s ELSE [s EXCEPT !.inputValue = v]

Toast(s, title) == [s EXCEPT !.toast = title]

(***************************************************************************)
(* Browser timers.                                                         *)
(***************************************************************************)
PendingIds(s) == {t.id : t \in s.timers}

\* an id no pending timer has and no ref still holds
NewTimerId(s) ==
    CHOOSE i \in TimerIds :
        /\ i \notin PendingIds(s) \cup {s.reconnectTimeoutRef, s.loadingTimeoutRef}
        /\ \A j \in TimerIds :
              j \notin PendingIds(s) \cup {s.reconnectTimeoutRef, s.loadingTimeoutRef}
                  => i <= j

clearTimeout(s, id) == [s EXCEPT !.timers = {t \in s.timers : t.id # id}]

Timer(id, kind, cl, delay) == [id |-> id, kind |-> kind, cl |-> cl, delay |-> delay]

(***************************************************************************)
(* Messages.                                                               *)
(***************************************************************************)
Msg(type, content, proc) == [type |-> type, content |-> content, isProcessing |-> proc]

NotProcessing(m) == ~m.isProcessing
NotIntermediate(m) == m.type # "intermediate"

RECURSIVE Pow2(_)
Pow2(n) == IF n = 0 THEN 1 ELSE 2 * Pow2(n - 1)

Min(a, b) == IF a < b THEN a ELSE b

\* the backoff without its cap
ReconnectDelayUncapped(n) == BaseDelay * Pow2(n)

\* Math.min(1000 * Math.pow(2, reconnectAttempts.current), 30000)
ReconnectDelay(n) == Min(BaseDelay * Pow2(n), CapDelay)


(***************************************************************************)
(* Sockets.  A socket that is closed and that websocketRef no longer holds *)
(* is unreachable: its slot is free again.                                 *)
(***************************************************************************)
Live(s, k) == k # Null /\ s.sockets[k].readyState \in {"OPEN", "CONNECTING"}

\* the slot of a new socket that websocketRef is about to hold: a free one,
\* or the one of the closed socket that websocketRef then lets go of
FreeSlot(s, k) ==
    \/ s.sockets[k].readyState = "NONE"
    \/ s.sockets[k].readyState = "CLOSED" /\ k = s.websocketRef

NewSocketId(s) ==
    CHOOSE k \in SocketIds : FreeSlot(s, k) /\ \A j \in SocketIds : FreeSlot(s, j) => k <= j

Collect(s) ==
    [s EXCEPT !.sockets =
        [k \in SocketIds |->
            IF s.sockets[k].readyState = "CLOSED" /\ k # s.websocketRef
            THEN NoSocket ELSE s.sockets[k]]]

\* WebSocket.close(1000, reason): a connecting or open socket starts closing
SocketCloseCall(s, k) ==
    IF s.sockets[k].readyState \in {"CONNECTING", "OPEN"}
    THEN [s EXCEPT !.sockets[k].readyState = "CLOSING",
                   !.sockets[k].wasOpen = (s.sockets[k].readyState = "OPEN")]
    ELSE s

\* new WebSocket(wsUrl) throws for the URL made with identity cl
UrlRejected(cl) == cl = "u#3"

\* connectWebSocket without the guard on the current socket's readyState
connectWebSocketUnguarded(s, cl) ==
    IF cl = NoUser
    THEN setConnectionStatus(s, "disconnected")
    ELSE LET s1 == setConnectionStatus(s, "connecting")
             k == NewSocketId(s1)
         IN  IF UrlRejected(cl)
             THEN setConnectionStatus(s1, "error")
             ELSE [s1 EXCEPT !.sockets[k] =
                            [readyState |-> "CONNECTING", cl |-> cl, wasOpen |-> FALSE],
                        !.websocketRef = k]

(***************************************************************************)
(* connectWebSocket, as the render with identity cl created it.            *)
(***************************************************************************)
connectWebSocket(s, cl) ==
    IF cl = NoUser
    THEN setConnectionStatus(s, "disconnected")
    ELSE IF Live(s, s.websocketRef)
    THEN s
    ELSE LET s1 == setConnectionStatus(s, "connecting")
             k == NewSocketId(s1)
         IN  IF UrlRejected(cl)
             THEN \* the catch clause: websocketRef keeps what it held
                  setConnectionStatus(s1, "error")
             ELSE [s1 EXCEPT !.sockets[k] =
                            [readyState |-> "CONNECTING", cl |-> cl, wasOpen |-> FALSE],
                        !.websocketRef = k]

\* websocketRef.current.onopen
onopen(s) ==
    Toast([setConnectionStatus(s, "connected") EXCEPT !.reconnectAttempts = 0],
          "Connected")

\* websocketRef.current.onerror
onerror(s) == Toast(setConnectionStatus(s, "error"), "Connection Error")

\* the retry decision that does not look at the close code
ShouldRetryAnyCode(code, attempts) == attempts < maxReconnectAttempts

\* the retry decision that allows one attempt more
ShouldRetryOnceMore(code, attempts) ==
    code # NormalClosure /\ attempts <= maxReconnectAttempts

\* the retry decision of onclose
ShouldRetry(code, attempts) ==
    code # NormalClosure /\ attempts < maxReconnectAttempts

\* onclose that leaves the provisional turns in the history
oncloseKeepingTurns(s, cl, code) ==
    LET s2 == setIsLoading(setConnectionStatus(s, "disconnected"), FALSE)
        s3 == IF code # NormalClosure THEN Toast(s2, "Connection Lost") ELSE s2
    IN  IF ShouldRetry(code, s3.reconnectAttempts)
        THEN LET id == NewTimerId(s3)
             IN  [s3 EXCEPT
                    !.timers = @ \cup {Timer(id, "reconnect", cl,
                                             ReconnectDelay(s3.reconnectAttempts))},
                    !.reconnectTimeoutRef = id]
        ELSE IF s3.reconnectAttempts >= maxReconnectAttempts
        THEN Toast(s3, "Connection Failed")
        ELSE s3

\* onclose that leaves the in-flight flag as it is
oncloseKeepingFlag(s, cl, code) ==
    LET s1 == setConnectionStatus(s, "disconnected")
        s2 == setMessages(s1, SelectSeq(s1.messages, NotProcessing))
        s3 == IF code # NormalClosure THEN Toast(s2, "Connection Lost") ELSE s2
    IN  IF ShouldRetry(code, s3.reconnectAttempts)
        THEN LET id == NewTimerId(s3)
             IN  [s3 EXCEPT
                    !.timers = @ \cup {Timer(id, "reconnect", cl,
                                             ReconnectDelay(s3.reconnectAttempts))},
                    !.reconnectTimeoutRef = id]
        ELSE IF s3.reconnectAttempts >= maxReconnectAttempts
        THEN Toast(s3, "Connection Failed")
        ELSE s3

\* websocketRef.current.onclose, of a socket the render with identity cl made
onclose(s, cl, code) ==
    LET s1 == setIsLoading(setConnectionStatus(s, "disconnected"), FALSE)
        s2 == setMessages(s1, SelectSeq(s1.messages, NotProcessing))
        s3 == IF code # NormalClosure THEN Toast(s2, "Connection Lost") ELSE s2
    IN  IF ShouldRetry(code, s3.reconnectAttempts)
        THEN LET id == NewTimerId(s3)
             IN  [s3 EXCEPT
                    !.timers = @ \cup {Timer(id, "reconnect", cl,
                                             ReconnectDelay(s3.reconnectAttempts))},
                    !.reconnectTimeoutRef = id]
        ELSE IF s3.reconnectAttempts >= maxReconnectAttempts
        THEN Toast(s3, "Connection Failed")
        ELSE s3

\* the callback of the reconnect timer
ReconnectCallback(s, cl) ==
    connectWebSocket([s EXCEPT !.reconnectAttempts = @ + 1], cl)

(***************************************************************************)
(* handleWebSocketMessage: the message router.                             *)
(***************************************************************************)
\* a number in a template literal
NumText(n) == CASE n = 1 -> "1" [] n = 2 -> "2" [] OTHER -> "n"

StatusContent(data) ==
    IF data.message # "" THEN <<data.message>> ELSE <<"Processing...">>

IntermediateContent(data) ==
    IF data.results_count # 0
    THEN <<"Found ", NumText(data.results_count), " matching receipts">>
    ELSE IF data.message # "" THEN <<data.message>>
    ELSE <<"Processing your request...">>

ResultContent(data) ==
    IF data.answer # "" THEN <<data.answer>>
    ELSE IF data.message # "" THEN <<data.message>>
    ELSE <<"No response received">>

ErrorText(data) ==
    IF data.error # "" THEN data.error
    ELSE IF data.message # "" THEN data.message
    ELSE "An unknown error occurred"

ErrorContent(data) ==
    <<"Sorry, I encountered an error: ", ErrorText(data), ". Please try again.">>

\* if (loadingTimeoutRef.current) clearTimeout(loadingTimeoutRef.current)
ClearLoadingTimeout(s) ==
    IF s.loadingTimeoutRef # Null THEN clearTimeout(s, s.loadingTimeoutRef) ELSE s

RouteStatus(s, data) ==
    setMessages(s, Append(s.messages, Msg("status", StatusContent(data), TRUE)))

\* the intermediate case that keeps the earlier intermediate turns
RouteIntermediateKeeping(s, data) ==
    setMessages(s, Append(s.messages,
                          Msg("intermediate", IntermediateContent(data), TRUE)))

RouteIntermediate(s, data) ==
    setMessages(s, Append(SelectSeq(s.messages, NotIntermediate),
                          Msg("intermediate", IntermediateContent(data), TRUE)))

\* the result case that leaves the 30 s timer armed
RouteResultKeepingTimer(s, data) ==
    LET s1 == setMessages(s, Append(SelectSeq(s.messages, NotProcessing),
                                    Msg("assistant", ResultContent(data), FALSE)))
    IN  setIsLoading(s1, FALSE)

RouteResult(s, data) ==
    LET s1 == setMessages(s, Append(SelectSeq(s.messages, NotProcessing),
                                    Msg("assistant", ResultContent(data), FALSE)))
    IN  ClearLoadingTimeout(setIsLoading(s1, FALSE))

RouteError(s, data) ==
    LET s1 == setMessages(s, Append(SelectSeq(s.messages, NotProcessing),
                                    Msg("assistant", ErrorContent(data), FALSE)))
    IN  Toast(ClearLoadingTimeout(setIsLoading(s1, FALSE)), "Query Error")

\* the router without the validation of data.type: a frame without a type
\* is shown like a status frame
handleWebSocketMessageLenient(s, data) ==
    IF data.parse # "object"
    THEN s
    ELSE CASE data.type = "connection" -> s
           [] data.type \in {"status", ""} -> RouteStatus(s, data)
           [] data.type = "intermediate" -> RouteIntermediate(s, data)
           [] data.type = "result" -> RouteResult(s, data)
           [] data.type = "error" -> RouteError(s, data)
           [] OTHER -> s

handleWebSocketMessage(s, data) ==
    IF data.parse # "object" \/ data.type = ""
    THEN s
    ELSE CASE data.type = "connection" -> s
           [] data.type = "status" -> RouteStatus(s, data)
           [] data.type = "intermediate" -> RouteIntermediate(s, data)
           [] data.type = "result" -> RouteResult(s, data)
           [] data.type = "error" -> RouteError(s, data)
           [] OTHER -> s

\* websocketRef.current.onmessage
onmessage(s, raw) ==
    IF raw.parse = "throws"
    THEN Toast(s, "Message Error")
    ELSE handleWebSocketMessage(s, raw)

(***************************************************************************)
(* The effect that connects on mount and when the identity changes, and    *)
(* its cleanup.                                                            *)
(***************************************************************************)
EffectCleanup(s) ==
    LET s1 == IF s.reconnectTimeoutRef # Null
              THEN clearTimeout(s, s.reconnectTimeoutRef) ELSE s
        s2 == ClearLoadingTimeout(s1)
    IN  IF s2.websocketRef # Null
        THEN [SocketCloseCall(s2, s2.websocketRef) EXCEPT !.websocketRef = Null]
        ELSE s2

EffectBody(s) ==
    IF s.user # NoUser
    THEN connectWebSocket(s, s.user)
    ELSE LET s1 == IF s.websocketRef # Null
                   THEN [SocketCloseCall(s, s.websocketRef) EXCEPT !.websocketRef = Null]
                   ELSE s
         IN  setConnectionStatus(s1, "disconnected")

(***************************************************************************)
(* The controls of the page.                                               *)
(***************************************************************************)
\* the input that stays enabled while a query is in flight
InputDisabledIgnoringLoading(s) ==
    s.connectionStatus # "connected" \/ s.user = NoUser

\* <Input disabled={...}>
InputDisabled(s) ==
    s.isLoading \/ s.connectionStatus # "connected" \/ s.user = NoUser

\* <Button onClick={handleSendMessage} disabled={...}>
SendDisabled(s) ==
    \/ Trim(s.inputValue) = ""
    \/ s.isLoading
    \/ s.connectionStatus # "connected"
    \/ s.user = NoUser

\* the guard that only looks at the text
SendRejectedBlankOnly(s) == Trim(s.inputValue) = ""

\* the guard of handleSendMessage
SendRejected(s) ==
    Trim(s.inputValue) = "" \/ s.connectionStatus # "connected" \/ s.user = NoUser

\* the Reconnect button is rendered
ReconnectShown(s) ==
    s.user # NoUser /\ s.connectionStatus \in {"disconnected", "error"}

\* the card with the suggested queries and the Clear Chat button is rendered
SuggestionsShown(s) == Len(s.messages) = 1

\* the frame that carries the placeholder identity
QueryFrameAnonymous(s, query) ==
    [sock |-> s.websocketRef, type |-> "query", query |-> query,
     user_id |-> "user@example.com"]

QueryFrame(s, query) ==
    [sock |-> s.websocketRef, type |-> "query", query |-> query,
     user_id |-> IF s.user # NoUser THEN s.user ELSE "user@example.com"]

\* websocketRef.current?.send(...): "none" (no socket), "throws" (a connecting
\* socket), "sent" (an open one), "dropped" (a closing or closed one)
SendOutcome(s) ==
    IF s.websocketRef = Null THEN "none"
    ELSE CASE s.sockets[s.websocketRef].readyState = "CONNECTING" -> "throws"
           [] s.sockets[s.websocketRef].readyState = "OPEN" -> "sent"
           [] OTHER -> "dropped"

handleSendMessage(s) ==
    IF SendRejected(s)
    THEN s
    ELSE LET query == s.inputValue
             s1 == setMessages(s, Append(s.messages, Msg("user", <<query>>, FALSE)))
             s2 == setIsLoading(setInputValue(s1, ""), TRUE)
             s3 == ClearLoadingTimeout(s2)
             lid == NewTimerId(s3)
             s4 == [s3 EXCEPT
                      !.timers = @ \cup {Timer(lid, "loading", NoUser, LoadingTimeoutMs)},
                      !.loadingTimeoutRef = lid]
         IN  IF SendOutcome(s4) = "throws"
             THEN Toast(ClearLoadingTimeout(setIsLoading(s4, FALSE)), "Send Error")
             ELSE LET s5 == IF SendOutcome(s4) = "sent"
                            THEN [s4 EXCEPT !.outbox = Append(@, QueryFrame(s4, query))]
                            ELSE s4
                      sid == NewTimerId(s5)
                  IN  [s5 EXCEPT
                         !.timers = @ \cup {Timer(sid, "status", NoUser, StatusDelayMs)}]

\* the callback of the 30 s timer that keeps only the assistant's turns
LoadingTimeoutCallbackDroppingQuery(s) ==
    LET s1 == setIsLoading(s, FALSE)
    IN  setMessages(s1, Append(SelectSeq(s1.messages, LAMBDA x : x.type = "assistant"),
                               Msg("assistant", TimedOutText, FALSE)))

\* the callback of the 30 s timer that leaves the in-flight flag set
LoadingTimeoutCallbackKeepingFlag(s) ==
    LET s2 == setMessages(s, Append(SelectSeq(s.messages, NotProcessing),
                                    Msg("assistant", TimedOutText, FALSE)))
    IN  Toast(s2, "Request Timeout")

\* the callback of the 30 s timer
LoadingTimeoutCallback(s) ==
    LET s1 == setIsLoading(s, FALSE)
        s2 == setMessages(s1, Append(SelectSeq(s1.messages, NotProcessing),
                                     Msg("assistant", TimedOutText, FALSE)))
    IN  Toast(s2, "Request Timeout")

\* the callback of the 100 ms timer
StatusCallback(s) ==
    setMessages(s, Append(s.messages, Msg("status", LocalProcessingText, TRUE)))

\* clearChat that also ends the query in flight
clearChatEndingQuery(s) ==
    ClearLoadingTimeout(setIsLoading(
        setMessages(s, <<Msg("assistant", ClearedGreeting, FALSE)>>), FALSE))

\* clearChat
clearChat(s) == setMessages(s, <<Msg("assistant", ClearedGreeting, FALSE)>>)

reconnectClick(s) == connectWebSocket([s EXCEPT !.reconnectAttempts = 0], s.user)


(***************************************************************************)
(* History variables.  ev names the event handled last: its kind, the      *)
(* close code of a close event, the attempt counter the handler read, and  *)
(* the delay of the reconnect timer it scheduled (0: none).  chain counts  *)
(* consecutive abnormal closures of the current socket, from a closure     *)
(* observed at counter 0 with no reconnect timer pending, with nothing but *)
(* the firing of the scheduled reconnect timer between two of them.        *)
(***************************************************************************)
Ev(kind, code, n, delay) == [kind |-> kind, code |-> code, n |-> n, delay |-> delay]

ReconnectTimers(s) == {t \in s.timers : t.kind = "reconnect"}
LoadingTimers(s) == {t \in s.timers : t.kind = "loading"}
StatusTimers(s) == {t \in s.timers : t.kind = "status"}

ChainAfterClose(s, k, code) ==
    IF code = NormalClosure \/ k # s.websocketRef \/ ReconnectTimers(s) # {}
    THEN 0
    ELSE IF chain = 0
    THEN IF s.reconnectAttempts = 0 THEN 1 ELSE 0
    ELSE chain + 1

\* the delay of the reconnect timer that the step from s to s2 scheduled
ScheduledDelay(s, s2) ==
    IF s2.reconnectTimeoutRef # s.reconnectTimeoutRef
          /\ \E t \in s2.timers : t.id = s2.reconnectTimeoutRef
    THEN (CHOOSE t \in s2.timers : t.id = s2.reconnectTimeoutRef).delay
    ELSE 0

QuietLink(s) ==
    /\ s.reconnectAttempts <= QuietAttempts
    /\ Cardinality(ReconnectTimers(s)) <= 1

LongHistory(s) == Len(s.messages) > ShortTurns

Fits(s) ==
    /\ Cardinality(s.timers) <= MaxTimers
    /\ Cardinality({k \in SocketIds : s.sockets[k].readyState # "NONE"}) <= MaxSockets
    /\ Len(s.messages) <= MaxTurns
    /\ (LongHistory(s) \/ s.authChanges > 0) => QuietLink(s)
    /\ LongHistory(s) => s.authChanges = 0 /\ s.messages[1].content = Greeting

ExpireRef(s, id) ==
    IF id # Null /\ id \notin PendingIds(s) THEN Expired ELSE id

\* the state a handler leaves, without what nothing can reach any more
Normal(s) ==
    LET g0 == Collect(s)
    IN  [g0 EXCEPT !.reconnectTimeoutRef = ExpireRef(g0, @),
                   !.loadingTimeoutRef = ExpireRef(g0, @)]

Commit(s, e, c) ==
    \E g \in {Normal(s)} :
        IF g = [St EXCEPT !.reconnectTimeoutRef = ExpireRef(St, @),
                          !.loadingTimeoutRef = ExpireRef(St, @)]
        THEN \* the handler changed nothing and notified nobody: no trace is kept
             UNCHANGED vars
        ELSE
        /\ Fits(g)
        /\ user' = g.user
        /\ lifecycle' = g.lifecycle
        /\ messages' = g.messages
        /\ inputValue' = g.inputValue
        /\ isLoading' = g.isLoading
        /\ connectionStatus' = g.connectionStatus
        /\ websocketRef' = g.websocketRef
        /\ reconnectTimeoutRef' = g.reconnectTimeoutRef
        /\ loadingTimeoutRef' = g.loadingTimeoutRef
        /\ reconnectAttempts' = g.reconnectAttempts
        /\ sockets' = g.sockets
        /\ timers' = g.timers
        /\ outbox' = g.outbox
        /\ toast' = g.toast
        /\ authChanges' = g.authChanges
        /\ ev' = e
        /\ chain' = c
        /\ UNCHANGED cacheVars

ComponentInit ==
    /\ user \in {NoUser, "u1"}
    /\ lifecycle = "init"
    /\ messages = <<Msg("assistant", Greeting, FALSE)>>
    /\ inputValue = ""
    /\ isLoading = FALSE
    /\ connectionStatus = "disconnected"
    /\ websocketRef = Null
    /\ reconnectTimeoutRef = Null
    /\ loadingTimeoutRef = Null
    /\ reconnectAttempts = 0
    /\ sockets = [k \in SocketIds |-> NoSocket]
    /\ timers = {}
    /\ outbox = <<>>
    /\ toast = ""
    /\ authChanges = 0
    /\ ev = Ev("init", 0, 0, 0)
    /\ chain = 0

Init == ComponentInit /\ CacheAtRest

(***************************************************************************)
(* The component's life: the first run of the effect, a change of the      *)
(* identity (the cleanup, then the effect of the new render), the unmount. *)
(***************************************************************************)
Mount ==
    /\ lifecycle = "init"
    /\ Commit(EffectBody([St EXCEPT !.lifecycle = "mounted"]), Ev("mount", 0, 0, 0), 0)

AuthChange(u) ==
    /\ lifecycle = "mounted"
    /\ u # user
    /\ authChanges < MaxAuthChanges
    /\ Commit(EffectBody(EffectCleanup([St EXCEPT !.user = u,
                                                  !.authChanges = @ + 1])),
              Ev("authchange", 0, 0, 0), 0)

Unmount ==
    /\ lifecycle = "mounted"
    /\ Commit([EffectCleanup(St) EXCEPT !.lifecycle = "unmounted", !.messages = <<>>,
                                         !.inputValue = "", !.isLoading = FALSE,
                                         !.connectionStatus = "disconnected",
                                         !.user = NoUser],
              Ev("unmount", 0, 0, 0), 0)

(***************************************************************************)
(* The events of a socket.                                                 *)
(***************************************************************************)
SocketOpen(k) ==
    /\ sockets[k].readyState = "CONNECTING"
    /\ Commit(onopen([St EXCEPT !.sockets[k].readyState = "OPEN"]),
              Ev("open", 0, 0, 0), 0)

\* the router's classes: the four kinds that change the session, "ignored"
\* for every frame that is dropped
FrameKind(raw) ==
    IF raw.parse = "object" /\ raw.type \in {"status", "intermediate", "result", "error"}
    THEN raw.type ELSE "ignored"

SocketMessage(k, raw) ==
    /\ sockets[k].readyState = "OPEN"
    /\ Commit(onmessage(St, raw),
              Ev(FrameKind(raw), 0, 0, 0),
              chain)

\* the close codes the browser can report for socket k: an abnormal closure
\* (1006) comes after an error event; a socket closed while still connecting
\* never completes a closing handshake
PossibleCodes(k) ==
    CASE sockets[k].readyState = "CONNECTING" -> {1006}
      [] sockets[k].readyState = "OPEN" -> CloseCodes
      [] sockets[k].readyState = "CLOSING" ->
             IF sockets[k].wasOpen THEN {1000, 1006} ELSE {1006}
      [] OTHER -> {}

\* the handlers that the closing of socket k with the code runs
CloseHandlers(k, code) ==
    LET s1 == [St EXCEPT !.sockets[k].readyState = "CLOSED"]
        s2 == IF code = 1006 THEN onerror(s1) ELSE s1
    IN  onclose(s2, sockets[k].cl, code)

SocketClose(k, code) ==
    /\ code \in PossibleCodes(k)
    /\ \E s3 \in {CloseHandlers(k, code)} :
           Commit(s3, Ev("close", code, reconnectAttempts, ScheduledDelay(St, s3)),
                  ChainAfterClose(St, k, code))

(***************************************************************************)
(* The browser's timers firing.  A 100 ms timer is armed together with or  *)
(* before the pending 30 s timer, so it fires before it.                   *)
(***************************************************************************)
\* "reconnect_attempt" when the callback opened a socket, "reconnect_noop"
\* when its connectWebSocket returned early
ReconnectEv(s, s2) ==
    IF s2.sockets # s.sockets THEN "reconnect_attempt" ELSE "reconnect_noop"

ReconnectTimerFire(id) ==
    \E t \in timers :
        /\ t.id = id /\ t.kind = "reconnect"
        /\ \E s2 \in {ReconnectCallback([St EXCEPT !.timers = @ \ {t}], t.cl)} :
               Commit(s2, Ev(ReconnectEv(St, s2), 0, 0, 0), chain)

LoadingTimeoutFire(id) ==
    \E t \in timers :
        /\ t.id = id /\ t.kind = "loading"
        /\ StatusTimers(St) = {}
        /\ Commit(LoadingTimeoutCallback([St EXCEPT !.timers = @ \ {t}]),
                  Ev("timeout", 0, 0, 0), chain)

StatusTimerFire(id) ==
    \E t \in timers :
        /\ t.id = id /\ t.kind = "status"
        /\ Commit(StatusCallback([St EXCEPT !.timers = @ \ {t}]),
                  Ev("status_timer", 0, 0, 0), chain)

(***************************************************************************)
(* The user's gestures.  A gesture on a disabled control reaches no        *)
(* handler.                                                                *)
(***************************************************************************)
SubmitEv(s) == IF SendRejected(s) THEN "submit_rejected" ELSE "submit"

\* the user types text into the input (onChange) and presses Enter
TypeAndEnter(text) ==
    /\ lifecycle = "mounted"
    /\ ~InputDisabled(St)
    /\ LET s1 == setInputValue(St, text)
       IN  Commit(handleSendMessage(s1), Ev(SubmitEv(s1), 0, 0, 0), chain)

\* the user clicks a suggested query (handleSuggestedQuery) and then Send
SuggestAndSend(q) ==
    /\ lifecycle = "mounted"
    /\ SuggestionsShown(St)
    /\ LET s1 == setInputValue(St, q)
       IN  /\ ~SendDisabled(s1)
           /\ Commit(handleSendMessage(s1), Ev(SubmitEv(s1), 0, 0, 0), chain)

ClickSend ==
    /\ lifecycle = "mounted"
    /\ IF SendDisabled(St)
       THEN UNCHANGED vars
       ELSE Commit(handleSendMessage(St), Ev(SubmitEv(St), 0, 0, 0), chain)
        
PressEnter ==
    /\ lifecycle = "mounted"
    /\ IF InputDisabled(St)
       THEN UNCHANGED vars
       ELSE Commit(handleSendMessage(St), Ev(SubmitEv(St), 0, 0, 0), chain)
        
ClickReconnect ==
    /\ lifecycle = "mounted"
    /\ ReconnectShown(St)
    /\ Commit(reconnectClick(St), Ev("reconnect_click", 0, 0, 0), 0)

ClickClearChat ==
    /\ lifecycle = "mounted"
    /\ SuggestionsShown(St)
    /\ Commit(clearChat(St), Ev("clear", 0, 0, 0), chain)

Next ==
    \/ Mount
    \/ \E u \in Users \cup {NoUser} : AuthChange(u)
    \/ Unmount
    \/ \E k \in SocketIds : SocketOpen(k)
    \/ \E k \in SocketIds, raw \in Frames : SocketMessage(k, raw)
    \/ \E k \in SocketIds, code \in CloseCodes : SocketClose(k, code)
    \/ \E id \in TimerIds : ReconnectTimerFire(id)
    \/ \E id \in TimerIds : LoadingTimeoutFire(id)
    \/ \E id \in TimerIds : StatusTimerFire(id)
    \/ \E text \in InputTexts : TypeAndEnter(text)
    \/ \E q \in suggestedQueries : SuggestAndSend(q)
    \/ ClickSend
    \/ PressEnter
    \/ ClickReconnect
    \/ ClickClearChat

Spec == Init /\ [][Next]_vars

(***************************************************************************)
(* What the browser guarantees: a pending timer fires, and a socket on     *)
(* which close() was called delivers its close event.                      *)
(***************************************************************************)
ClosingSocketCloses ==
    \E k \in SocketIds, code \in CloseCodes :
        sockets[k].readyState = "CLOSING" /\ SocketClose(k, code)

FairSpec ==
    /\ Spec
    /\ WF_vars(\E id \in TimerIds : ReconnectTimerFire(id))
    /\ WF_vars(\E id \in TimerIds : LoadingTimeoutFire(id))
    /\ WF_vars(\E id \in TimerIds : StatusTimerFire(id))
    /\ WF_vars(ClosingSocketCloses)

(***************************************************************************)
(* Properties of the query session.                                        *)
(***************************************************************************)
UserTurns(m) == Len(SelectSeq(m, LAMBDA x : x.type = "user"))
StatusTurns(m) == Len(SelectSeq(m, LAMBDA x : x.type = "status"))
IntermediateTurns(m) == Len(SelectSeq(m, LAMBDA x : x.type = "intermediate"))

\* C1: while a query is in flight (isLoading), no step of the component
\* submits: none appends a User turn, none hands a frame to the socket, and
\* none arms a 30 s timer or lets loadingTimeoutRef hold another one.  So a
\* second submit before the terminal frame leaves one User turn.
C1_OneQueryInFlight ==
    [][isLoading =>
          /\ UserTurns(messages') <= UserTurns(messages)
          /\ outbox' = outbox
          /\ LoadingTimers(St)' \subseteq LoadingTimers(St)
          /\ loadingTimeoutRef' \in {loadingTimeoutRef, Expired}]_vars

\* a query is in flight, one User turn and one outbound frame exist, and
\* both controls that submit are disabled
C1_Witness ==
    /\ isLoading
    /\ ev.kind = "submit"
    /\ UserTurns(messages) = 1
    /\ Len(outbox) = 1
    /\ LoadingTimers(St) # {}
    /\ InputDisabled(St)
    /\ SendDisabled([St EXCEPT !.inputValue = "Show me all expenses"])

\* C2: right after a result frame or an error frame was routed, the
\* in-flight flag is clear and no 30 s timer is pending, so none can fire
\* before the next submit arms one; whatever frames came before.
C2_TerminalFrameClears ==
    ev.kind \in {"result", "error"} => ~isLoading /\ LoadingTimers(St) = {}

\* a result frame ended a query whose 30 s timer was armed: the answer is the
\* last turn, the timer that loadingTimeoutRef held is gone
C2_Witness ==
    /\ ev.kind = "result"
    /\ loadingTimeoutRef = Expired
    /\ UserTurns(messages) = 1
    /\ messages[Len(messages)].type = "assistant"
    /\ messages[Len(messages) - 1].type = "user"

\* a turn that a result frame or an error frame appended
IsTerminalTurn(m) ==
    m.type = "assistant" /\ m.content \notin {Greeting, ClearedGreeting, TimedOutText}

\* the provisional turn that the 100 ms timer of a submit appends
IsLocalStatusTurn(m) == m.isProcessing /\ m.content = LocalProcessingText

\* C3: after the terminal frame of a submitted query was applied and until
\* the next submit, the history holds no provisional turn that a timer of the
\* submit added: every local 'Processing your query...' turn that follows a
\* terminal turn is separated from it by a User turn.
C3_NoProvisionalAfterTerminal ==
    \A i, j \in DOMAIN messages :
        (i < j /\ IsTerminalTurn(messages[i]) /\ IsLocalStatusTurn(messages[j]))
            => \E k \in (i + 1)..(j - 1) : messages[k].type = "user"

\* C4: the history holds at most one Intermediate turn; an intermediate
\* frame removes the Intermediate turns, keeps every other turn in order and
\* appends one Intermediate turn; a status frame keeps every turn and appends
\* one Status turn.
C4_OneIntermediateTurn ==
    /\ [](IntermediateTurns(messages) <= 1)
    /\ [][/\ ev'.kind = "intermediate" =>
                /\ Len(messages') = Len(SelectSeq(messages, NotIntermediate)) + 1
                /\ SubSeq(messages', 1, Len(messages') - 1)
                       = SelectSeq(messages, NotIntermediate)
                /\ messages'[Len(messages')].type = "intermediate"
          /\ ev'.kind = "status" =>
                /\ Len(messages') = Len(messages) + 1
                /\ SubSeq(messages', 1, Len(messages)) = messages
                /\ messages'[Len(messages')].type = "status"
                /\ StatusTurns(messages') = StatusTurns(messages) + 1]_vars

\* an intermediate frame was routed after two status frames: both Status
\* turns are kept, one Intermediate turn follows
C4_Witness ==
    /\ ev.kind = "intermediate"
    /\ StatusTurns(messages) = 2
    /\ IntermediateTurns(messages) = 1

\* the 'request timed out' turns behind the last User turn
TimedOutSinceSubmit(m) ==
    Cardinality({i \in DOMAIN m :
                    /\ m[i].content = TimedOutText
                    /\ \A j \in DOMAIN m : m[j].type = "user" => j < i})

\* C5: at most one 30 s timer is pending, the one loadingTimeoutRef holds (a
\* timer of an earlier submit is never pending beside a later one); the
\* firing of it clears the in-flight flag, appends the 'request timed out'
\* turn and leaves no 30 s timer; at most one such turn follows a submit.
C5_OneTimeoutPerQuery ==
    /\ Cardinality(LoadingTimers(St)) <= 1
    /\ \A t \in LoadingTimers(St) : t.id = loadingTimeoutRef
    /\ TimedOutSinceSubmit(messages) <= 1
    /\ ev.kind = "timeout" =>
          /\ LoadingTimers(St) = {}
          /\ lifecycle = "mounted" =>
                /\ ~isLoading
                /\ messages[Len(messages)] = Msg("assistant", TimedOutText, FALSE)
                /\ TimedOutSinceSubmit(messages) = 1

\* the 30 s timer of the second query fired, after the first was answered
C5_Witness ==
    /\ ev.kind = "timeout"
    /\ UserTurns(messages) = 2
    /\ TimedOutSinceSubmit(messages) = 1
    /\ ~isLoading

(***************************************************************************)
(* Properties of the reconnection policy.                                  *)
(***************************************************************************)
\* C6: a close event with code 1000 schedules no reconnect timer, whatever
\* the attempt counter is: the retry decision is negative for every counter
\* from 0 to beyond maxReconnectAttempts, and no close event with code 1000
\* has armed a timer or changed the counter.
C6_NormalCloseNoRetry ==
    /\ \A n \in 0..(maxReconnectAttempts + 2) : ~ShouldRetry(NormalClosure, n)
    /\ (ev.kind = "close" /\ ev.code = NormalClosure) =>
          /\ ev.delay = 0
          /\ ev.n = reconnectAttempts

\* a socket closed with code 1000 while the attempt counter was not 0
C6_Witness ==
    /\ ev.kind = "close"
    /\ ev.code = NormalClosure
    /\ ev.n >= 1

DelayTable == <<1000, 2000, 4000, 8000, 16000, 30000, 30000>>

\* C7: the delay computed for counter n is min(1000 * 2^n, 30000), which is
\* 1000, 2000, 4000, 8000, 16000, 30000, 30000 for n = 0..6; a close that
\* schedules a reconnect at counter n arms the timer with that delay; the
\* first abnormal closure schedules 1000 ms and, when that reconnect fails
\* with no open in between, the next closure schedules 2000 ms.
C7_BackoffDelays ==
    /\ \A n \in 0..6 : ReconnectDelay(n) = DelayTable[n + 1]
    /\ ev.kind = "close" =>
          /\ ev.delay # 0 => ev.n < maxReconnectAttempts
                              /\ ev.delay = DelayTable[ev.n + 1]
          /\ chain = 1 => ev.n = 0 /\ ev.delay = 1000
          /\ chain = 2 => ev.n = 1 /\ ev.delay = 2000
    /\ \A t \in ReconnectTimers(St) : \E n \in 0..6 : t.delay = DelayTable[n + 1]

\* the second consecutive abnormal closure scheduled a reconnect at 2000 ms
C7_Witness ==
    /\ ev.kind = "close"
    /\ chain = 2
    /\ ev.delay = 2000
    /\ ReconnectTimers(St) # {}

\* C8, as stated: the fifth consecutive abnormal closure raises 'Connection
\* Failed' and schedules no reconnect timer.
C8_FifthClosureExhausts ==
    (ev.kind = "close" /\ chain = 5) =>
        toast = "Connection Failed" /\ ev.delay = 0 /\ ReconnectTimers(St) = {}

\* C8, amended: the first five consecutive abnormal closures each schedule a
\* reconnect (at 1000, 2000, 4000, 8000, 16000 ms) and raise 'Connection
\* Lost'; the sixth, observed at counter 5, raises 'Connection Failed' and
\* schedules no reconnect timer.
C8_SixthClosureExhausts ==
    ev.kind = "close" =>
        /\ chain \in 1..5 =>
              /\ ev.n = chain - 1
              /\ ev.delay = DelayTable[chain]
              /\ toast = "Connection Lost"
              /\ Cardinality(ReconnectTimers(St)) = 1
        /\ chain = 6 =>
              /\ ev.n = maxReconnectAttempts
              /\ ev.delay = 0
              /\ toast = "Connection Failed"
              /\ ReconnectTimers(St) = {}

\* the sixth consecutive abnormal closure happened
C8_Witness ==
    /\ ev.kind = "close"
    /\ chain = 6
    /\ toast = "Connection Failed"

\* C9: in a mounted session an automatic reconnection attempt (a reconnect
\* timer that opens a socket) is at most the fifth since the last open or
\* manual reconnect: once the counter has reached 5 no timer opens a socket
\* again and the session stays disconnected.
C9_AtMostMaxAttempts ==
    (lifecycle = "mounted" /\ ev.kind = "reconnect_attempt")
        => reconnectAttempts <= maxReconnectAttempts

\* C10: at most one socket is connecting or open, and it is the one that
\* websocketRef holds; while it is, connectWebSocket changes nothing.
C10_OneLiveTransport ==
    /\ Cardinality({k \in SocketIds : Live(St, k)}) <= 1
    /\ \A k \in SocketIds : Live(St, k) => k = websocketRef
    /\ Live(St, websocketRef) => \A cl \in Users : connectWebSocket(St, cl) = St

\* a reconnect timer fired while the current socket was open, and the
\* socket is still the only one
C10_Witness ==
    /\ ev.kind = "reconnect_noop"
    /\ Live(St, websocketRef)
    /\ sockets[websocketRef].readyState = "OPEN"
    /\ reconnectAttempts >= 1

(***************************************************************************)
(* Properties of the teardown.                                             *)
(***************************************************************************)
\* C11: after the unmount no reconnect timer fires and no transport is
\* opened for the session: in an unmounted component no socket is connecting
\* or open, and the event handled last is not the firing of a reconnect
\* timer.
C11_TeardownIsFinal ==
    lifecycle = "unmounted" =>
        /\ \A k \in SocketIds : ~Live(St, k)
        /\ ev.kind \notin {"reconnect_attempt", "reconnect_noop"}

(***************************************************************************)
(* Properties of submit.                                                   *)
(***************************************************************************)
\* the state in which the input holds text
Typed(text) == [St EXCEPT !.inputValue = text]

\* C12: handleSendMessage, called while connectionStatus is not 'connected'
\* or while no user is logged in, returns with the state as it was: no User
\* turn, the in-flight flag, the timers and the frames sent are unchanged.
C12_SubmitRejected ==
    \A text \in InputTexts :
        (connectionStatus # "connected" \/ user = NoUser) =>
            /\ handleSendMessage(Typed(text)) = Typed(text)
            /\ InputDisabled(Typed(text))
            /\ SendDisabled(Typed(text))

\* a logged-in session that has answered a query and lost its connection:
\* a submit is rejected there
C12_Witness ==
    /\ lifecycle = "mounted"
    /\ user # NoUser
    /\ connectionStatus \in {"disconnected", "error"}
    /\ UserTurns(messages) >= 1
    /\ ~isLoading
    /\ SendRejected(Typed("Show me all expenses"))

\* the session accepts a submit: mounted, 'connected', logged in, idle
Idle ==
    /\ lifecycle = "mounted"
    /\ connectionStatus = "connected"
    /\ user # NoUser
    /\ ~isLoading

\* C13: in every idle connected state, handleSendMessage on non-blank text
\* appends one User turn with the text and changes no other turn, sets the
\* in-flight flag, arms one 30 s timer that loadingTimeoutRef holds, and
\* hands one frame {type 'query', query: text, user_id: user} to the socket
\* that websocketRef holds, which is open.
C13_SubmitAccepted ==
    Idle =>
        /\ websocketRef # Null
        /\ sockets[websocketRef].readyState = "OPEN"
        /\ \A text \in InputTexts :
              LET r == handleSendMessage(Typed(text))
              IN  /\ r.messages = Append(messages, Msg("user", <<text>>, FALSE))
                  /\ r.isLoading
                  /\ r.inputValue = ""
                  /\ Cardinality(LoadingTimers(r)) = 1
                  /\ \A t \in LoadingTimers(r) :
                        t.id = r.loadingTimeoutRef /\ t.delay = LoadingTimeoutMs
                  /\ r.outbox = Append(outbox,
                                       [sock |-> websocketRef, type |-> "query",
                                        query |-> text, user_id |-> user])
                  /\ r.sockets = sockets
                  /\ r.connectionStatus = connectionStatus
                  /\ r.reconnectAttempts = reconnectAttempts

\* the second query of a session was submitted: two User turns, two frames
\* sent, the last one with the text and the identity
C13_Witness ==
    /\ ev.kind = "submit"
    /\ isLoading
    /\ UserTurns(messages) = 2
    /\ Len(outbox) = 2
    /\ outbox[2].query = "Show me all expenses"
    /\ outbox[2].user_id = user
    /\ outbox[2].sock = websocketRef
    /\ messages[Len(messages)] = Msg("user", <<"Show me all expenses">>, FALSE)

\* C14: a close event, whatever its code, leaves the in-flight flag clear
\* and no provisional turn in the history; the handler keeps exactly the
\* User and Assistant turns, in order.
C14_CloseEndsQuery ==
    /\ ev.kind = "close" =>
          /\ ~isLoading
          /\ \A i \in DOMAIN messages : messages[i].type \in {"user", "assistant"}
    /\ lifecycle = "mounted" =>
          \A k \in SocketIds, code \in CloseCodes :
              code \in PossibleCodes(k) =>
                  LET r == onclose([St EXCEPT !.sockets[k].readyState = "CLOSED"],
                                   sockets[k].cl, code)
                  IN  /\ ~r.isLoading
                      /\ r.messages =
                            SelectSeq(messages,
                                      LAMBDA m : m.type \in {"user", "assistant"})

\* the socket closed while a query was in flight: the query's turn is the
\* last one, its 30 s timer is still pending, the flag is clear
C14_Witness ==
    /\ ev.kind = "close"
    /\ lifecycle = "mounted"
    /\ messages[Len(messages)].type = "user"
    /\ LoadingTimers(St) # {}
    /\ ~isLoading

(***************************************************************************)
(* Properties of the connection manager.                                   *)
(***************************************************************************)
\* C15: wherever the Reconnect button is shown (a user is logged in, the
\* status is 'disconnected' or 'error'), its handler leaves the attempt
\* counter at 0 and the status at 'connecting'.
C15_ManualReconnectConnects ==
    (lifecycle = "mounted" /\ ReconnectShown(St)) =>
        /\ reconnectClick(St).reconnectAttempts = 0
        /\ reconnectClick(St).connectionStatus = "connecting"

\* C16: the attempt counter is 0 right after every open event, and it is 0
\* in every state of a mounted session whose status is 'connected'; stated
\* for a session whose identity has not changed since the mount.
C16_CounterZeroWhenConnected ==
    /\ ev.kind = "open" => reconnectAttempts = 0
    /\ (lifecycle = "mounted" /\ authChanges = 0 /\ connectionStatus = "connected")
           => reconnectAttempts = 0

(***************************************************************************)
(* Properties of the message router.                                       *)
(***************************************************************************)
\* text that is no JSON, JSON that is no object, an object without a type,
\* a connection frame, an object of a type the router does not know
DroppedFrames ==
    {raw \in Frames :
        \/ raw.parse # "object"
        \/ raw.type \notin {"status", "intermediate", "result", "error"}}

\* C17: in every state, onmessage on a dropped frame changes nothing of the
\* session: the history, the in-flight flag, the timers and their refs, the
\* status, the counter and the sockets are as before (a notification is all
\* that text which is no JSON raises).
C17_DroppedFramesChangeNothing ==
    \A raw \in DroppedFrames :
        LET r == onmessage(St, raw)
        IN  /\ r.messages = messages
            /\ r.isLoading = isLoading
            /\ r.timers = timers
            /\ r.loadingTimeoutRef = loadingTimeoutRef
            /\ r.connectionStatus = connectionStatus
            /\ r.reconnectAttempts = reconnectAttempts
            /\ [r EXCEPT !.toast = ""] = St

\* text that is no JSON arrived while a query was in flight: the query is
\* still in flight, its timer pending, the history as the submit left it
C17_Witness ==
    /\ ev.kind = "ignored"
    /\ toast = "Message Error"
    /\ isLoading
    /\ LoadingTimers(St) # {}
    /\ connectionStatus = "connected"
    /\ messages[Len(messages)].type = "user"
    /\ Cardinality(DroppedFrames) = 5

(***************************************************************************)
(* Progress.  The model explores bounded histories and bounded links, so   *)
(* progress is stated up to the states in which a pending event does not   *)
(* fit the bounds.                                                         *)
(***************************************************************************)
\* the state after pending timer t has fired
Fired(t) ==
    LET s == [St EXCEPT !.timers = @ \ {t}]
    IN  CASE t.kind = "reconnect" -> ReconnectCallback(s, t.cl)
          [] t.kind = "loading" -> LoadingTimeoutCallback(s)
          [] t.kind = "status" -> StatusCallback(s)

\* a pending timer of one of the kinds, or the close event of a closing
\* socket, leads out of the bounds
OutOfBounds(kinds) ==
    \/ \E t \in timers : t.kind \in kinds /\ ~Fits(Normal(Fired(t)))
    \/ \E k \in SocketIds :
          /\ sockets[k].readyState = "CLOSING"
          /\ \A code \in PossibleCodes(k) : ~Fits(Normal(CloseHandlers(k, code)))

\* C18: when the in-flight flag is set it is cleared later, whatever frames
\* arrive in between, given that pending timers fire and closing sockets
\* deliver their close event.
C18_QueryNeverStuck ==
    isLoading ~> (~isLoading \/ OutOfBounds({"loading", "status"}))

\* the flag of a query was cleared by the close event of the socket that an
\* identity change had closed, after the cleanup had cancelled the 30 s timer
C18_Witness ==
    /\ ev.kind = "close"
    /\ authChanges = 1
    /\ lifecycle = "mounted"
    /\ ~isLoading
    /\ messages[Len(messages)].type = "user"
    /\ LoadingTimers(St) = {}
    /\ ~OutOfBounds({"loading", "status"})


\* an abnormal closure handled below the retry limit, the component mounted
AbnormalCloseSeen ==
    /\ ev.kind = "close"
    /\ ev.code # NormalClosure
    /\ ev.n < maxReconnectAttempts
    /\ lifecycle = "mounted"

\* C19: after an abnormal closure handled below the retry limit while the
\* component is mounted, the connection state becomes 'connecting' again,
\* unless the component unmounts or the user signs out, given that pending
\* timers fire.
C19_AbnormalCloseReconnects ==
    AbnormalCloseSeen ~>
        \/ connectionStatus = "connecting"
        \/ lifecycle = "unmounted"
        \/ user = NoUser
        \/ OutOfBounds({"reconnect"})

\* the same for a session whose identity never changes
ReconnectsWithoutIdentityChange ==
    (AbnormalCloseSeen /\ authChanges = 0) ~>
        \/ connectionStatus = "connecting"
        \/ lifecycle = "unmounted"
        \/ authChanges > 0
        \/ OutOfBounds({"reconnect"})

\* C20: whenever the connection state is 'error' a close event is handled
\* later and makes it 'disconnected'.
C20_ErrorLeadsToClose ==
    connectionStatus = "error" ~> (ev.kind = "close" /\ connectionStatus = "disconnected")

\* the state 'error' is only observable when no socket of the current
\* identity exists: an error event is followed by the close event in the
\* same turn of the event loop, the failure of the constructor by nothing
ErrorOnlyFromConstructor ==
    connectionStatus = "error" =>
        /\ UrlRejected(user)
        /\ \A k \in SocketIds : sockets[k].readyState # "NONE" => sockets[k].cl # user


(***************************************************************************)
(* Properties of the turn history.                                         *)
(***************************************************************************)
\* C21: clearChat leaves a history of exactly one assistant greeting turn
\* and changes nothing else: connection state, socket, attempt counter,
\* both timers, in-flight flag and input are those of the state before.
C21_ClearKeepsConnection ==
    lifecycle = "mounted" =>
        LET s2 == clearChat(St)
        IN  /\ s2.messages = <<Msg("assistant", ClearedGreeting, FALSE)>>
            /\ s2 = [St EXCEPT !.messages = s2.messages]

\* the history was cleared while a socket was open
C21_Witness ==
    /\ ev.kind = "clear"
    /\ messages = <<Msg("assistant", ClearedGreeting, FALSE)>>
    /\ connectionStatus = "connected"
    /\ Live(St, websocketRef)


Durable(m) == m.type \in {"user", "assistant"}

RECURSIVE IsSubsequence(_, _)
IsSubsequence(a, b) ==
    IF a = <<>> THEN TRUE
    ELSE IF b = <<>> THEN FALSE
    ELSE IF Head(a) = Head(b) THEN IsSubsequence(Tail(a), Tail(b))
    ELSE IsSubsequence(a, Tail(b))

\* history new is history old with some status and intermediate turns
\* removed and turns added at the end
AppendOnly(old, new) ==
    \E n \in 0..Len(new) :
        LET kept == SubSeq(new, 1, n)
        IN  /\ IsSubsequence(kept, old)
            /\ SelectSeq(kept, Durable) = SelectSeq(old, Durable)

\* C22: no step of the mounted component other than clearChat removes or
\* reorders a user or assistant turn; a step removes status and
\* intermediate turns only and adds its new turns at the end.
C22_HistoryAppendOnly ==
    [][(lifecycle' = "mounted" /\ ev'.kind # "clear") => AppendOnly(messages, messages')]_vars

\* an error frame removed the status turn of the query and added its
\* answer after the user's turn
C22_Witness ==
    /\ ev.kind = "error"
    /\ Len(messages) = 3
    /\ messages[2].type = "user"
    /\ messages[3].type = "assistant"
    /\ ~isLoading


(***************************************************************************)
(* Properties of the timers.                                               *)
(***************************************************************************)
\* C27: while the component is mounted a pending 30 s timer implies that
\* the in-flight flag is set.
C27_TimerOnlyInFlight ==
    lifecycle = "mounted" => (LoadingTimers(St) # {} => isLoading)


\* C28: at most one reconnect timer is pending.
C28_OneReconnectTimer ==
    Cardinality(ReconnectTimers(St)) <= 1


(***************************************************************************)
(* Properties of the session across an identity change.                    *)
(***************************************************************************)
CurrentSocketOpen ==
    websocketRef # Null /\ sockets[websocketRef].readyState = "OPEN"

\* C29: while the component is mounted the connection state is 'connected'
\* exactly when the current socket is open.
C29_ConnectedIffOpen ==
    lifecycle = "mounted" => (connectionStatus = "connected" <=> CurrentSocketOpen)

\* the same for a session whose identity never changes
ConnectedIffOpenWithoutIdentityChange ==
    (lifecycle = "mounted" /\ authChanges = 0) =>
        (connectionStatus = "connected" <=> CurrentSocketOpen)


AssistantTurns(m) == Len(SelectSeq(m, LAMBDA x : x.type = "assistant"))

\* C30: the history of the mounted component holds, besides the greeting,
\* at most one assistant turn for each user turn.
C30_OneAnswerPerQuery ==
    lifecycle = "mounted" => AssistantTurns(messages) <= 1 + UserTurns(messages)


(***************************************************************************)
(* Second part: the data service (dataService.ts) and the login and logout *)
(* of the AuthProvider (part_007).                                         *)
(***************************************************************************)
\* the clock runs to this many milliseconds at most
MaxClockMs == 300001
\* entries of localStorage at most
MaxEntries == 4

CACHE_DURATION == 300000

STORAGE_KEYS ==
    <<"raseed_user_data", "raseed_user_analytics", "raseed_user_summary",
      "raseed_wallet_passes", "raseed_categories", "raseed_last_fetch">>

Accounts == {"u1"}
\* the cached getters explored; getUserAnalytics and getUserWalletPasses are
\* getUserSummary with another key, URL and default
Getters == {"getUserData", "getUserSummary", "getCategories"}
\* the bodies the API answers with
Bodies == {"v2"}

(***************************************************************************)
(* Strings.  A key is the sequence of the pieces its template literal      *)
(* joins; a stored text is the output of JSON.stringify, the decimal       *)
(* digits of a number, or any other text.                                  *)
(***************************************************************************)
\* `${key}_${userId}`
UserKey(key, userId) == <<key, "_", userId>>
\* `${key}_timestamp`
TimestampKey(key) == key \o <<"_timestamp">>
\* storageKey.startsWith(key), for a key of STORAGE_KEYS
StartsWith(storageKey, key) == Len(storageKey) >= 1 /\ storageKey[1] = key

Text(kind, val, n) == [kind |-> kind, val |-> val, n |-> n]
\* JSON.stringify(data)
JsonText(data) == Text("json", data, 0)
\* Date.now().toString()
DecimalText(n) == Text("num", "", n)
\* a text that is neither JSON nor a number
RawText(x) == Text("raw", x, 0)
\* what getItem returns for a key that is not stored
NullItem == Text("null", "", 0)

\* numbers of JavaScript: an integer or NaN
Num(n) == [nan |-> FALSE, n |-> n]
NaN == [nan |-> TRUE, n |-> 0]
parseInt(text) == IF text.kind = "num" THEN Num(text.n) ELSE NaN
Minus(a, b) == IF a.nan \/ b.nan THEN NaN ELSE Num(a.n - b.n)
GreaterThan(a, b) == ~a.nan /\ ~b.nan /\ a.n > b.n

\* the values of JavaScript that JSON.parse gives: null, a number, or one of
\* the objects and arrays of the API
JsNull == "null"
Truthy(v) == v # JsNull

(***************************************************************************)
(* window.localStorage.                                                    *)
(***************************************************************************)
Entry(key, value) == [key |-> key, value |-> value]

IndexOf(ls, key) ==
    IF \E i \in 1..Len(ls) : ls[i].key = key
    THEN CHOOSE i \in 1..Len(ls) : ls[i].key = key
    ELSE 0

getItem(ls, key) == IF IndexOf(ls, key) = 0 THEN NullItem ELSE ls[IndexOf(ls, key)].value

setItem(ls, key, value) ==
    IF IndexOf(ls, key) = 0
    THEN Append(ls, Entry(key, value))
    ELSE [ls EXCEPT ![IndexOf(ls, key)].value = value]

removeItem(ls, key) == SelectSeq(ls, LAMBDA e : e.key # key)

(***************************************************************************)
(* DataService.                                                            *)
(***************************************************************************)
\* the cache key of a getter
cacheKey(getter, userId) ==
    CASE getter = "getUserData" -> UserKey(STORAGE_KEYS[1], userId)
      [] getter = "getUserAnalytics" -> UserKey(STORAGE_KEYS[2], userId)
      [] getter = "getUserSummary" -> UserKey(STORAGE_KEYS[3], userId)
      [] getter = "getUserWalletPasses" -> UserKey(STORAGE_KEYS[4], userId)
      [] getter = "getCategories" -> <<STORAGE_KEYS[5]>>

\* the structure a getter returns when it has nothing else
EmptyDefault(getter) ==
    CASE getter = "getUserData" -> "no receipts"
      [] getter = "getUserAnalytics" -> "no analytics"
      [] getter = "getUserSummary" -> "no summary"
      [] getter = "getUserWalletPasses" -> "no passes"
      [] getter = "getCategories" -> "default categories"

isDataStale(ls, now, key) ==
    LET lastFetch == getItem(ls, TimestampKey(key))
    IN  IF lastFetch = NullItem \/ lastFetch = RawText("")
        THEN TRUE
        ELSE GreaterThan(Minus(Num(now), parseInt(lastFetch)), Num(CACHE_DURATION))

setDataWithTimestamp(ls, now, key, data) ==
    setItem(setItem(ls, key, JsonText(data)), TimestampKey(key), DecimalText(now))

getDataFromStorage(ls, key) ==
    LET data == getItem(ls, key)
    IN  IF data = NullItem \/ data = RawText("") THEN JsNull
        ELSE IF data.kind = "json" THEN data.val
        ELSE IF data.kind = "num" THEN "a number"
        ELSE \* JSON.parse throws, the catch returns null
             JsNull

\* a getter up to its fetch: TRUE when it returns the cached value
ServesFromCache(ls, now, getter, userId, forceRefresh) ==
    /\ ~forceRefresh
    /\ ~isDataStale(ls, now, cacheKey(getter, userId))
    /\ Truthy(getDataFromStorage(ls, cacheKey(getter, userId)))

\* the answers to a fetch: a rejected promise, a status that is not OK, an
\* OK response with a body, an OK response whose body is no JSON
Response(kind, body) == [kind |-> kind, body |-> body]
Responses ==
    {Response("rejected", ""), Response("status 500", ""), Response("garbled", "")}
        \cup {Response("ok", b) : b \in Bodies}

\* fetchWithAuth throws
FetchThrows(r) == r.kind \in {"rejected", "status 500"}

Outcome(ls, value, outcome, threw) ==
    [ls |-> ls, value |-> value, outcome |-> outcome, threw |-> threw]

\* the catch clause of a getter that drops the entry it could not refresh
GetterCatchDropping(ls, getter, userId) ==
    LET cachedData == getDataFromStorage(ls, cacheKey(getter, userId))
    IN  Outcome(removeItem(ls, cacheKey(getter, userId)),
                IF Truthy(cachedData) THEN cachedData ELSE EmptyDefault(getter),
                "fallback", FALSE)

\* the catch clause of a getter
GetterCatch(ls, getter, userId) ==
    LET cachedData == getDataFromStorage(ls, cacheKey(getter, userId))
    IN  Outcome(ls, IF Truthy(cachedData) THEN cachedData ELSE EmptyDefault(getter),
                "fallback", FALSE)

\* a getter from the answer to its fetch on
GetterAfterFetch(ls, now, getter, userId, r) ==
    IF FetchThrows(r) \/ r.kind = "garbled"
    THEN GetterCatch(ls, getter, userId)
    ELSE Outcome(setDataWithTimestamp(ls, now, cacheKey(getter, userId), r.body),
                 r.body, "fetched", FALSE)

RECURSIVE clearUserCacheFrom(_, _, _)
clearUserCacheFrom(ls, userId, j) ==
    IF j > Len(STORAGE_KEYS)
    THEN ls
    ELSE LET userSpecificKey == UserKey(STORAGE_KEYS[j], userId)
         IN  clearUserCacheFrom(
                 removeItem(removeItem(ls, userSpecificKey), TimestampKey(userSpecificKey)),
                 userId, j + 1)

clearUserCache(ls, userId) == clearUserCacheFrom(ls, userId, 1)

\* the inner loop of clearAllCache from index i on (i counts from 0)
RECURSIVE RemoveVariations(_, _, _)
RemoveVariations(ls, key, i) ==
    IF i >= Len(ls)
    THEN ls
    ELSE LET storageKey == ls[i + 1].key
         IN  IF StartsWith(storageKey, key)
             THEN RemoveVariations(removeItem(ls, storageKey), key, i + 1)
             ELSE RemoveVariations(ls, key, i + 1)

RECURSIVE clearAllCacheFrom(_, _)
clearAllCacheFrom(ls, j) ==
    IF j > Len(STORAGE_KEYS)
    THEN ls
    ELSE clearAllCacheFrom(RemoveVariations(ls, STORAGE_KEYS[j], 0), j + 1)

clearAllCache(ls) == clearAllCacheFrom(ls, 1)

\* the getters that initializeUserData starts, each with forceRefresh = true
Request(getter, userId) == [getter |-> getter, userId |-> userId]
initializeUserData(userId) ==
    {Request(g, userId) : g \in Getters \ {"getCategories"}}
        \cup {Request("getCategories", "")}

(***************************************************************************)
(* The states localStorage can be found in when the application starts:    *)
(* written by an earlier run, by another tab of the origin or by hand.     *)
(***************************************************************************)
ForeignEntry == Entry(<<"theme">>, RawText("dark"))
CategoriesKey == <<STORAGE_KEYS[5]>>

InitialStorages ==
    { <<>>,
      <<ForeignEntry>>,
      <<Entry(CategoriesKey, JsonText("v1")),
        Entry(TimestampKey(CategoriesKey), DecimalText(0))>>,
      <<ForeignEntry, Entry(CategoriesKey, JsonText("v1")),
        Entry(TimestampKey(CategoriesKey), DecimalText(0))>>,
      <<Entry(CategoriesKey, RawText("{")),
        Entry(TimestampKey(CategoriesKey), DecimalText(0))>>,
      <<Entry(CategoriesKey, JsonText("v1")),
        Entry(TimestampKey(CategoriesKey), RawText("yesterday"))>>,
      <<Entry(CategoriesKey, JsonText("v1"))>> }

CacheInit ==
    /\ ComponentInit
    /\ user = NoUser
    /\ localStorage \in InitialStorages
    /\ clock = 0
    /\ pending = {}
    /\ account = NoUser
    /\ loggedOut = {}
    /\ last = NoCall

(***************************************************************************)
(* The calls of the data service.                                          *)
(***************************************************************************)
\* AuthProvider.login: the state is set, initializeUserData runs in the
\* background
Login(email) ==
    /\ account = NoUser
    /\ account' = email
    /\ loggedOut' = loggedOut \ {email}
    /\ pending' = pending \cup initializeUserData(email)
    /\ UNCHANGED <<localStorage, clock, last, componentVars>>

\* AuthProvider.logout
Logout ==
    /\ account # NoUser
    /\ localStorage' = clearUserCache(localStorage, account)
    /\ account' = NoUser
    /\ loggedOut' = loggedOut \cup {account}
    /\ last' = Call("clearUserCache", "", account, "cleared", "", FALSE)
    /\ UNCHANGED <<clock, pending, componentVars>>

\* a page calls a getter for the logged-in user
PageCall(getter, forceRefresh) ==
    /\ account # NoUser
    /\ LET userId == IF getter = "getCategories" THEN "" ELSE account
       IN  IF ServesFromCache(localStorage, clock, getter, userId, forceRefresh)
           THEN /\ last' = Call("getter", getter, userId, "cached",
                                getDataFromStorage(localStorage, cacheKey(getter, userId)),
                                FALSE)
                /\ UNCHANGED pending
           ELSE /\ Request(getter, userId) \notin pending
                /\ pending' = pending \cup {Request(getter, userId)}
                /\ last' = Call("getter", getter, userId, "requested", "", FALSE)
    /\ UNCHANGED <<localStorage, clock, account, loggedOut, componentVars>>

\* the fetch of a getter settles and the getter runs to its end
FetchSettles(req, r) ==
    /\ req \in pending
    /\ \E o \in {GetterAfterFetch(localStorage, clock, req.getter, req.userId, r)} :
          /\ Len(o.ls) <= MaxEntries
          /\ localStorage' = o.ls
          /\ last' = Call("getter", req.getter, req.userId, o.outcome, o.value, o.threw)
    /\ pending' = pending \ {req}
    /\ UNCHANGED <<clock, account, loggedOut, componentVars>>

\* time passes: five minutes, or five minutes and a millisecond
Tick(d) ==
    /\ clock + d <= MaxClockMs
    /\ clock' = clock + d
    /\ UNCHANGED <<localStorage, pending, account, loggedOut, last, componentVars>>

ClearAll ==
    /\ localStorage' = clearAllCache(localStorage)
    /\ last' = Call("clearAllCache", "", "", "cleared", "", FALSE)
    /\ UNCHANGED <<clock, pending, account, loggedOut, componentVars>>

CacheNext ==
    \/ \E email \in Accounts : Login(email)
    \/ Logout
    \/ \E getter \in Getters, forceRefresh \in BOOLEAN : PageCall(getter, forceRefresh)
    \/ \E getter \in Getters, userId \in Accounts \cup {""}, r \in Responses :
          FetchSettles(Request(getter, userId), r)
    \/ \E d \in {CACHE_DURATION, CACHE_DURATION + 1} : Tick(d)
    \/ ClearAll

CacheSpec == CacheInit /\ [][CacheNext]_vars


(***************************************************************************)
(* Properties of the cache.                                                *)
(***************************************************************************)
UserIds == Accounts \cup {""}

\* the entry of the key can be parsed and its timestamp is a number at
\* most CACHE_DURATION before now
FreshParseableEntry(ls, now, key) ==
    /\ getItem(ls, key).kind = "json"
    /\ getItem(ls, TimestampKey(key)).kind = "num"
    /\ now - getItem(ls, TimestampKey(key)).n <= CACHE_DURATION

\* C23: a getter called without forceRefresh returns the cached value, and
\* issues no request, exactly when the entry of its key can be parsed and
\* has a timestamp at most five minutes old.
C23_CacheHitIffFresh ==
    \A getter \in Getters, userId \in UserIds :
        ServesFromCache(localStorage, clock, getter, userId, FALSE)
            <=> FreshParseableEntry(localStorage, clock, cacheKey(getter, userId))

\* the same in the states in which every stored timestamp is a number
CacheHitIffFreshForNumericTimestamps ==
    (\A i \in 1..Len(localStorage) :
        localStorage[i].key[Len(localStorage[i].key)] = "_timestamp"
            => localStorage[i].value.kind = "num")
    => C23_CacheHitIffFresh

\* a getter called with forceRefresh never returns from the cache, and a
\* fetch that succeeded has stored its body under the key with the time of
\* the clock
RefreshStores ==
    /\ \A getter \in Getters, userId \in UserIds :
          ~ServesFromCache(localStorage, clock, getter, userId, TRUE)
    /\ last.outcome = "fetched" =>
          /\ getItem(localStorage, cacheKey(last.getter, last.userId)) = JsonText(last.value)
          /\ getItem(localStorage, TimestampKey(cacheKey(last.getter, last.userId))).kind = "num"


\* the value cached under the getter's key, however old, or else the
\* getter's empty structure
CachedOrDefault(ls, getter, userId) ==
    IF getItem(ls, cacheKey(getter, userId)).kind = "json"
    THEN getItem(ls, cacheKey(getter, userId)).val
    ELSE EmptyDefault(getter)

\* C24: when the fetch of a getter is rejected or answered with a status
\* that is not OK, the getter returns without throwing, with the value
\* cached under its key or else its empty structure, and localStorage is
\* as before.
C24_FailureFallsBack ==
    [][\A getter \in Getters, userId \in UserIds, r \in Responses :
          (FetchThrows(r) /\ FetchSettles(Request(getter, userId), r)) =>
              /\ localStorage' = localStorage
              /\ last'.outcome = "fallback"
              /\ ~last'.threw
              /\ last'.value = CachedOrDefault(localStorage, getter, userId)]_vars

\* a failed fetch of the categories returned the cached value, which was
\* older than five minutes
C24_Witness ==
    /\ last.outcome = "fallback"
    /\ last.getter = "getCategories"
    /\ last.value = "v1"
    /\ getItem(localStorage, TimestampKey(CategoriesKey)).kind = "num"
    /\ isDataStale(localStorage, clock, CategoriesKey)


\* the keys of the user's entries: data, analytics, summary, wallet passes,
\* and their timestamps
UserEntryKeys(userId) ==
    LET keys == {UserKey(STORAGE_KEYS[j], userId) : j \in 1..4}
    IN  keys \cup {TimestampKey(k) : k \in keys}

\* C25: localStorage holds no entry of a user who has logged out.
C25_NoEntryAfterLogout ==
    \A userId \in loggedOut :
        \A i \in 1..Len(localStorage) : localStorage[i].key \notin UserEntryKeys(userId)

\* in the state that logout leaves there is no entry of the user
LogoutClears ==
    last.name = "clearUserCache" =>
        \A i \in 1..Len(localStorage) : localStorage[i].key \notin UserEntryKeys(last.userId)


\* the key starts with one of the application's prefixes
HasAppPrefix(storageKey) ==
    \E j \in 1..Len(STORAGE_KEYS) : StartsWith(storageKey, STORAGE_KEYS[j])

\* C26: in the state that clearAllCache leaves, no key of localStorage
\* starts with one of the application's prefixes.
C26_ClearAllRemovesAll ==
    last.name = "clearAllCache" =>
        \A i \in 1..Len(localStorage) : ~HasAppPrefix(localStorage[i].key)

\* clearAllCache never touches an entry of another key
ClearAllKeepsOtherKeys ==
    SelectSeq(clearAllCache(localStorage), LAMBDA e : ~HasAppPrefix(e.key))
        = SelectSeq(localStorage, LAMBDA e : ~HasAppPrefix(e.key))

=============================================================================
